---- MODULE Spec2Model ----
(***************************************************************************)
(* Slot-grammar analyzers of the Voynich word list (analyze_slot_grammar   *)
(* .py and its versions v2..v8): the greedy per-slot matcher, the          *)
(* full-match predicates, the bounded segmentation searches and their      *)
(* memoization.                                                            *)
(*                                                                         *)
(* A Python string is modelled as a sequence of one-character strings, so  *)
(* "sh" is <<"s","h">> and "" is <<>>.  Positions (pos, i, j, k) and slot  *)
(* indices are 0-based as in the source; s[a:b] is slice(s, a, b).         *)
(***************************************************************************)
EXTENDS Integers, Sequences, FiniteSets, TLC

VARIABLES
    slots,      \* the grammar in use (the `slots` argument / the module's SLOTS_* global)
    word,       \* the token the operation is applied to
    op,         \* the operation that produced the results below ("none": nothing called yet)
    matched,    \* parse_greedy: the list of (slot index, option) pairs
    remaining,  \* parse_greedy: the unconsumed suffix
    ok,         \* the boolean a predicate returned
    parts,      \* the witness of a segmentation search: [(block, slots_used), ...]
    cache,      \* the lru_cache of is_v5 / is_v6 / is_v7 / is_v8: name -> (token -> bool)
    hit,        \* TRUE when the last call was answered from the cache (cache_info().hits grew)
    raised,     \* TRUE when the call ended with an exception instead of a value
    text_i,     \* unknown_chars_in: i, the cursor of the while loop
    text_result, \* unknown_chars_in: result, the characters appended so far / returned
    version,    \* main: the module whose main is running ("none": no main)
    words,      \* main: the tokens read from the word list, in file order
    matched_words,    \* main: matched_words / matched_vN
    unmatched_words,  \* main: unmatched_words / unmatched_vN
    report      \* main: what the run derives after the classification

scan == <<text_i, text_result>>
batch == <<version, words, matched_words, unmatched_words, report>>
vars == <<slots, word, op, matched, remaining, ok, parts, cache, hit, raised, scan, batch>>

----------------------------------------------------------------------------
(* Bounds of the exploration *)

\* longest token tried against the grammars of the source
MaxLen == 4
\* longest token tried against a generated grammar
MaxGenLen == 3
\* most slots of a generated grammar
MaxSlots == 2
\* most options of a generated grammar, counted over all its slots
MaxOptions == 3
\* most entries the memoization caches hold together in SpecCache
MaxCached == 2
\* most tokens of a word list given to a main
MaxWords == 3

----------------------------------------------------------------------------
(* The grammars of the source *)

\* analyze_slot_grammar.py: the original grammar (SLOTS_V1 of v2 is the same value)
SLOTS ==
    << << <<"l">>, <<"r">>, <<"o">>, <<"y">>, <<"s">> >>,
       << <<"q">>, <<"s">>, <<"d">>, <<"x">>, <<"l">>, <<"r">> >>,
       << <<"o">>, <<"y">> >>,
       << <<"d">>, <<"r">> >>,
       << <<"t">>, <<"k">>, <<"p">>, <<"f">> >>,
       << <<"c","h">>, <<"s","h">> >>,
       << <<"c","t","h">>, <<"c","k","h">>, <<"c","p","h">>, <<"c","f","h">> >>,
       << <<"e","e","e">>, <<"e","e">>, <<"e">>, <<"g">> >>,
       << <<"k">>, <<"t">>, <<"p">>, <<"f">>, <<"c","h">>, <<"s","h">>, <<"l">>, <<"r">>, <<"o">>, <<"y">> >>,
       << <<"s">>, <<"d">> >>,
       << <<"o">>, <<"a">>, <<"y">> >>,
       << <<"i","i","i">>, <<"i","i">>, <<"i">> >>,
       << <<"d">>, <<"l">>, <<"r">>, <<"m">>, <<"n">> >>,
       << <<"s">> >>,
       << <<"y">> >>,
       << <<"k">>, <<"t">>, <<"p">>, <<"f">>, <<"l">>, <<"r">>, <<"o">>, <<"y">> >> >>

\* the v2 grammar without its change: slot 1 as in v1
SLOTS_V2_without_h == SLOTS

\* v2, v3: 'h' appended to slot 1
SLOTS_V2 ==
    << << <<"l">>, <<"r">>, <<"o">>, <<"y">>, <<"s">> >>,
       << <<"q">>, <<"s">>, <<"d">>, <<"x">>, <<"l">>, <<"r">>, <<"h">> >>,
       << <<"o">>, <<"y">> >>,
       << <<"d">>, <<"r">> >>,
       << <<"t">>, <<"k">>, <<"p">>, <<"f">> >>,
       << <<"c","h">>, <<"s","h">> >>,
       << <<"c","t","h">>, <<"c","k","h">>, <<"c","p","h">>, <<"c","f","h">> >>,
       << <<"e","e","e">>, <<"e","e">>, <<"e">>, <<"g">> >>,
       << <<"k">>, <<"t">>, <<"p">>, <<"f">>, <<"c","h">>, <<"s","h">>, <<"l">>, <<"r">>, <<"o">>, <<"y">> >>,
       << <<"s">>, <<"d">> >>,
       << <<"o">>, <<"a">>, <<"y">> >>,
       << <<"i","i","i">>, <<"i","i">>, <<"i">> >>,
       << <<"d">>, <<"l">>, <<"r">>, <<"m">>, <<"n">> >>,
       << <<"s">> >>,
       << <<"y">> >>,
       << <<"k">>, <<"t">>, <<"p">>, <<"f">>, <<"l">>, <<"r">>, <<"o">>, <<"y">> >> >>

\* 'c' put into slot 0 instead of slot 9
SLOTS_V4_c_in_slot_0 == [SLOTS_V2 EXCEPT ![1] = Append(@, <<"c">>)]

\* v4, v5, v6: 'c' appended to slot 9
SLOTS_V4 ==
    << << <<"l">>, <<"r">>, <<"o">>, <<"y">>, <<"s">> >>,
       << <<"q">>, <<"s">>, <<"d">>, <<"x">>, <<"l">>, <<"r">>, <<"h">> >>,
       << <<"o">>, <<"y">> >>,
       << <<"d">>, <<"r">> >>,
       << <<"t">>, <<"k">>, <<"p">>, <<"f">> >>,
       << <<"c","h">>, <<"s","h">> >>,
       << <<"c","t","h">>, <<"c","k","h">>, <<"c","p","h">>, <<"c","f","h">> >>,
       << <<"e","e","e">>, <<"e","e">>, <<"e">>, <<"g">> >>,
       << <<"k">>, <<"t">>, <<"p">>, <<"f">>, <<"c","h">>, <<"s","h">>, <<"l">>, <<"r">>, <<"o">>, <<"y">> >>,
       << <<"s">>, <<"d">>, <<"c">> >>,
       << <<"o">>, <<"a">>, <<"y">> >>,
       << <<"i","i","i">>, <<"i","i">>, <<"i">> >>,
       << <<"d">>, <<"l">>, <<"r">>, <<"m">>, <<"n">> >>,
       << <<"s">> >>,
       << <<"y">> >>,
       << <<"k">>, <<"t">>, <<"p">>, <<"f">>, <<"l">>, <<"r">>, <<"o">>, <<"y">> >> >>

\* v7: 'v' appended to slot 0
SLOTS_V7 ==
    << << <<"l">>, <<"r">>, <<"o">>, <<"y">>, <<"s">>, <<"v">> >>,
       << <<"q">>, <<"s">>, <<"d">>, <<"x">>, <<"l">>, <<"r">>, <<"h">> >>,
       << <<"o">>, <<"y">> >>,
       << <<"d">>, <<"r">> >>,
       << <<"t">>, <<"k">>, <<"p">>, <<"f">> >>,
       << <<"c","h">>, <<"s","h">> >>,
       << <<"c","t","h">>, <<"c","k","h">>, <<"c","p","h">>, <<"c","f","h">> >>,
       << <<"e","e","e">>, <<"e","e">>, <<"e">>, <<"g">> >>,
       << <<"k">>, <<"t">>, <<"p">>, <<"f">>, <<"c","h">>, <<"s","h">>, <<"l">>, <<"r">>, <<"o">>, <<"y">> >>,
       << <<"s">>, <<"d">>, <<"c">> >>,
       << <<"o">>, <<"a">>, <<"y">> >>,
       << <<"i","i","i">>, <<"i","i">>, <<"i">> >>,
       << <<"d">>, <<"l">>, <<"r">>, <<"m">>, <<"n">> >>,
       << <<"s">> >>,
       << <<"y">> >>,
       << <<"k">>, <<"t">>, <<"p">>, <<"f">>, <<"l">>, <<"r">>, <<"o">>, <<"y">> >> >>

\* v8: 'z' appended to slot 1
SLOTS_V8 ==
    << << <<"l">>, <<"r">>, <<"o">>, <<"y">>, <<"s">>, <<"v">> >>,
       << <<"q">>, <<"s">>, <<"d">>, <<"x">>, <<"l">>, <<"r">>, <<"h">>, <<"z">> >>,
       << <<"o">>, <<"y">> >>,
       << <<"d">>, <<"r">> >>,
       << <<"t">>, <<"k">>, <<"p">>, <<"f">> >>,
       << <<"c","h">>, <<"s","h">> >>,
       << <<"c","t","h">>, <<"c","k","h">>, <<"c","p","h">>, <<"c","f","h">> >>,
       << <<"e","e","e">>, <<"e","e">>, <<"e">>, <<"g">> >>,
       << <<"k">>, <<"t">>, <<"p">>, <<"f">>, <<"c","h">>, <<"s","h">>, <<"l">>, <<"r">>, <<"o">>, <<"y">> >>,
       << <<"s">>, <<"d">>, <<"c">> >>,
       << <<"o">>, <<"a">>, <<"y">> >>,
       << <<"i","i","i">>, <<"i","i">>, <<"i">> >>,
       << <<"d">>, <<"l">>, <<"r">>, <<"m">>, <<"n">> >>,
       << <<"s">> >>,
       << <<"y">> >>,
       << <<"k">>, <<"t">>, <<"p">>, <<"f">>, <<"l">>, <<"r">>, <<"o">>, <<"y">> >> >>

----------------------------------------------------------------------------
(* Inputs *)

SeqsUpTo(S, n) == UNION {[1..k -> S] : k \in 0..n}

\* characters of the tokens tried against the grammars of the source: "h" alone
\* is in no slot before v2, "c" alone in none before v4, "v" in no pattern before v7
Alphabet == {"s", "h", "c", "v"}
Words == SeqsUpTo(Alphabet, MaxLen)

\* generated grammars: every sequence of at most MaxSlots slots, a slot being a
\* sequence of distinct options, with at most MaxOptions options in the whole
\* grammar; the empty grammar and the empty slot are among them
GenAlphabet == {"a", "b"}
GenOptions == {<<"a">>, <<"b">>, <<"a", "b">>}
GenSlots == {s \in SeqsUpTo(GenOptions, Cardinality(GenOptions)) :
                \A i, j \in DOMAIN s : i # j => s[i] # s[j]}
RECURSIVE OptionCount(_)
OptionCount(g) == IF g = <<>> THEN 0 ELSE Len(g[1]) + OptionCount(Tail(g))
GenGrammars == {g \in SeqsUpTo(GenSlots, MaxSlots) : OptionCount(g) <= MaxOptions}
GenWords == SeqsUpTo(GenAlphabet, MaxGenLen)

VersionGrammars == {SLOTS, SLOTS_V2, SLOTS_V4, SLOTS_V7, SLOTS_V8}

\* the two-slot grammar [["s"], ["h"]]
SH == << << <<"s">> >>, << <<"h">> >> >>

----------------------------------------------------------------------------
(* String helpers *)

\* s[a:b] for 0 <= a
slice(s, a, b) == SubSeq(s, a + 1, IF b < Len(s) THEN b ELSE Len(s))

\* word.startswith(option, pos)
startswith(w, option, pos) ==
    /\ pos + Len(option) <= Len(w)
    /\ \A k \in 1..Len(option) : w[pos + k] = option[k]

----------------------------------------------------------------------------
(* Parser: parse_greedy(word, slots) of v2, v3, v4 *)

\* the option loop without its break: the last option that occurs wins
RECURSIVE last_option(_, _, _, _)
last_option(w, options, pos, n) ==
    IF n > Len(options) THEN 0
    ELSE LET later == last_option(w, options, pos, n + 1)
         IN  IF later # 0 THEN later
             ELSE IF startswith(w, options[n], pos) THEN n
             ELSE 0

\* for option in options: if word.startswith(option, pos): ...; break
\* the 1-based place of the option taken, 0 when the loop ends without a break
RECURSIVE first_option(_, _, _, _)
first_option(w, options, pos, n) ==
    IF n > Len(options) THEN 0
    ELSE IF startswith(w, options[n], pos) THEN n
    ELSE first_option(w, options, pos, n + 1)

\* the slot loop ending at the first slot that matched
RECURSIVE slot_loop_first_match_only(_, _, _, _, _)
slot_loop_first_match_only(w, g, slot_idx, pos, m) ==
    IF slot_idx >= Len(g) THEN [matched |-> m, pos |-> pos]
    ELSE IF pos >= Len(w) THEN [matched |-> m, pos |-> pos]
    ELSE LET options == g[slot_idx + 1]
             n == first_option(w, options, pos, 1)
         IN  IF n = 0
             THEN slot_loop_first_match_only(w, g, slot_idx + 1, pos, m)
             ELSE [matched |-> Append(m, <<slot_idx, options[n]>>),
                   pos |-> pos + Len(options[n])]

\* the slot loop staying on a slot after it matched, so that a slot can match again
RECURSIVE slot_loop_same_slot_again(_, _, _, _, _)
slot_loop_same_slot_again(w, g, slot_idx, pos, m) ==
    IF slot_idx >= Len(g) THEN [matched |-> m, pos |-> pos]
    ELSE IF pos >= Len(w) THEN [matched |-> m, pos |-> pos]
    ELSE LET options == g[slot_idx + 1]
             n == first_option(w, options, pos, 1)
         IN  IF n = 0
             THEN slot_loop_same_slot_again(w, g, slot_idx + 1, pos, m)
             ELSE slot_loop_same_slot_again(w, g, slot_idx, pos + Len(options[n]),
                                            Append(m, <<slot_idx, options[n]>>))

\* for slot_idx, options in enumerate(slots): ...
RECURSIVE slot_loop(_, _, _, _, _)
slot_loop(w, g, slot_idx, pos, m) ==
    IF slot_idx >= Len(g) THEN [matched |-> m, pos |-> pos]
    ELSE IF pos >= Len(w) THEN [matched |-> m, pos |-> pos]
    ELSE LET options == g[slot_idx + 1]
             n == first_option(w, options, pos, 1)
         IN  IF n = 0
             THEN slot_loop(w, g, slot_idx + 1, pos, m)
             ELSE slot_loop(w, g, slot_idx + 1, pos + Len(options[n]),
                            Append(m, <<slot_idx, options[n]>>))

\* parse_greedy with the leftover sliced one character too far
parse_greedy_off_by_one(w, g) ==
    LET r == slot_loop(w, g, 0, 0, <<>>)
    IN  [matched |-> r.matched, remaining |-> slice(w, r.pos + 1, Len(w))]

parse_greedy(w, g) ==
    LET r == slot_loop(w, g, 0, 0, <<>>)
    IN  [matched |-> r.matched, remaining |-> slice(w, r.pos, Len(w))]

\* is_match without the "at least one slot" test
is_match_any(w, g) == parse_greedy(w, g).remaining = <<>>

\* is_match(word, slots) of v2
is_match(w, g) ==
    LET p == parse_greedy(w, g)
    IN  p.remaining = <<>> /\ Len(p.matched) > 0

----------------------------------------------------------------------------
(* v1: parse_greedy(word) and is_match(word) over the module's SLOTS *)

parse_greedy_v1(w) == parse_greedy(w, SLOTS)

is_match_v1(w) ==
    LET p == parse_greedy_v1(w)
    IN  p.remaining = <<>> /\ Len(p.matched) > 0

\* ALL_OPTIONS = {opt for slot in SLOTS for opt in slot}
ALL_OPTIONS(g) == UNION {{g[s][n] : n \in DOMAIN g[s]} : s \in DOMAIN g}

\* for opt in sorted(ALL_OPTIONS, key=len, reverse=True):
\*     if text.startswith(opt, i): found = True; i += len(opt); break
\* the options tried longest first, the one taken is a longest option at i
longest_option(text, all_options, at) ==
    LET here == {opt \in all_options : startswith(text, opt, at)}
    IN  IF here = {} THEN [found |-> FALSE, len |-> 0]
        ELSE [found |-> TRUE,
              len |-> CHOOSE n \in {Len(opt) : opt \in here} :
                          \A opt \in here : Len(opt) <= n]

\* the iteration leaving the cursor in place when no option is found
unknown_chars_in_step_stuck(text, all_options, at, res) ==
    LET o == longest_option(text, all_options, at)
    IN  [i |-> at + o.len, result |-> res]

\* one iteration of `while i < len(text)` in unknown_chars_in
unknown_chars_in_step(text, all_options, at, res) ==
    LET o == longest_option(text, all_options, at)
    IN  IF o.found
        THEN [i |-> at + o.len, result |-> res]
        ELSE [i |-> at + 1, result |-> Append(res, text[at + 1])]

----------------------------------------------------------------------------
(* v3: the v2 grammar repeated at most twice *)

is_v2_match(w) ==
    LET p == parse_greedy(w, SLOTS_V2)
    IN  p.remaining = <<>> /\ Len(p.matched) > 0

\* the split loop of is_v3_match giving up after the first prefix that full-matches
RECURSIVE is_v3_match_loop_commit(_, _, _)
is_v3_match_loop_commit(w, g, i) ==
    IF i >= Len(w) THEN [ok |-> FALSE, parts |-> <<>>]
    ELSE LET p1 == slice(w, 0, i)
             p2 == slice(w, i, Len(w))
             r1 == parse_greedy(p1, g)
             r2 == parse_greedy(p2, g)
         IN  IF r1.remaining # <<>> \/ r1.matched = <<>>
             THEN is_v3_match_loop_commit(w, g, i + 1)
             ELSE IF r2.remaining = <<>> /\ r2.matched # <<>>
             THEN [ok |-> TRUE, parts |-> << <<p1, r1.matched>>, <<p2, r2.matched>> >>]
             ELSE [ok |-> FALSE, parts |-> <<>>]

\* for i in range(1, len(word)): ...; g is the value of the module's SLOTS_V2
RECURSIVE is_v3_match_loop(_, _, _)
is_v3_match_loop(w, g, i) ==
    IF i >= Len(w) THEN [ok |-> FALSE, parts |-> <<>>]
    ELSE LET p1 == slice(w, 0, i)
             p2 == slice(w, i, Len(w))
             r1 == parse_greedy(p1, g)
             r2 == parse_greedy(p2, g)
         IN  IF r1.remaining # <<>> \/ r1.matched = <<>>
             THEN is_v3_match_loop(w, g, i + 1)
             ELSE IF r2.remaining = <<>> /\ r2.matched # <<>>
             THEN [ok |-> TRUE, parts |-> << <<p1, r1.matched>>, <<p2, r2.matched>> >>]
             ELSE is_v3_match_loop(w, g, i + 1)

\* is_v3_match without its single-block test: the split loop only
is_v3_match_over_split_only(w, g) == is_v3_match_loop(w, g, 1)

\* the body of is_v3_match, g being the grammar the module's SLOTS_V2 is bound to
is_v3_match_over(w, g) ==
    LET r == parse_greedy(w, g)
    IN  IF r.remaining = <<>> /\ r.matched # <<>>
        THEN [ok |-> TRUE, parts |-> << <<w, r.matched>> >>]
        ELSE is_v3_match_loop(w, g, 1)

is_v3_match(w) == is_v3_match_over(w, SLOTS_V2)

----------------------------------------------------------------------------
(* v4: 'c' in slot 9, still at most two blocks *)

is_v4_base(w) ==
    LET p == parse_greedy(w, SLOTS_V4)
    IN  p.remaining = <<>> /\ p.matched # <<>>

RECURSIVE is_v4_match_loop(_, _)
is_v4_match_loop(w, i) ==
    IF i >= Len(w) THEN [ok |-> FALSE, parts |-> <<>>]
    ELSE LET p1 == slice(w, 0, i)
             p2 == slice(w, i, Len(w))
             r1 == parse_greedy(p1, SLOTS_V4)
             r2 == parse_greedy(p2, SLOTS_V4)
         IN  IF r1.remaining # <<>> \/ r1.matched = <<>>
             THEN is_v4_match_loop(w, i + 1)
             ELSE IF r2.remaining = <<>> /\ r2.matched # <<>>
             THEN [ok |-> TRUE, parts |-> << <<p1, r1.matched>>, <<p2, r2.matched>> >>]
             ELSE is_v4_match_loop(w, i + 1)

is_v4_match(w) ==
    IF is_v4_base(w)
    THEN [ok |-> TRUE, parts |-> << <<w, parse_greedy(w, SLOTS_V4).matched>> >>]
    ELSE is_v4_match_loop(w, 1)

----------------------------------------------------------------------------
(* v5: the v4 grammar repeated at most three times *)

parse_greedy_v5(w) == parse_greedy(w, SLOTS_V4)

\* is_base without the "at least one slot" test
is_base_any(w) == parse_greedy_v5(w).remaining = <<>>

is_base(w) ==
    LET p == parse_greedy_v5(w)
    IN  p.remaining = <<>> /\ p.matched # <<>>

\* the inner loop of is_v5 testing the second block only
RECURSIVE is_v5_loop_j_second_block_only(_, _)
is_v5_loop_j_second_block_only(rest, j) ==
    IF j >= Len(rest) THEN FALSE
    ELSE IF is_base(slice(rest, 0, j))
    THEN TRUE
    ELSE is_v5_loop_j_second_block_only(rest, j + 1)

\* for j in range(1, len(rest)): ...
RECURSIVE is_v5_loop_j(_, _)
is_v5_loop_j(rest, j) ==
    IF j >= Len(rest) THEN FALSE
    ELSE IF is_base(slice(rest, 0, j)) /\ is_base(slice(rest, j, Len(rest)))
    THEN TRUE
    ELSE is_v5_loop_j(rest, j + 1)

\* the outer loop of is_v5 giving up after the first prefix that full-matches
RECURSIVE is_v5_loop_i_commit(_, _)
is_v5_loop_i_commit(w, i) ==
    IF i >= Len(w) THEN FALSE
    ELSE LET p1 == slice(w, 0, i)
             rest == slice(w, i, Len(w))
         IN  IF ~is_base(p1) THEN is_v5_loop_i_commit(w, i + 1)
             ELSE IF is_base(rest) THEN TRUE
             ELSE is_v5_loop_j(rest, 1)

\* for i in range(1, len(word)): ...
RECURSIVE is_v5_loop_i(_, _)
is_v5_loop_i(w, i) ==
    IF i >= Len(w) THEN FALSE
    ELSE LET p1 == slice(w, 0, i)
             rest == slice(w, i, Len(w))
         IN  IF ~is_base(p1) THEN is_v5_loop_i(w, i + 1)
             ELSE IF is_base(rest) THEN TRUE
             ELSE IF is_v5_loop_j(rest, 1) THEN TRUE
             ELSE is_v5_loop_i(w, i + 1)

\* the body of is_v5, without its cache
is_v5(w) == IF is_base(w) THEN TRUE ELSE is_v5_loop_i(w, 1)

\* the inner loop of find_split testing only the second block
RECURSIVE find_split_loop_j_unchecked(_, _, _, _)
find_split_loop_j_unchecked(p1, m1, rest, j) ==
    IF j >= Len(rest) THEN <<>>
    ELSE LET p2 == slice(rest, 0, j)
             p3 == slice(rest, j, Len(rest))
         IN  IF is_base(p2)
             THEN << <<p1, m1>>, <<p2, parse_greedy_v5(p2).matched>>,
                     <<p3, parse_greedy_v5(p3).matched>> >>
             ELSE find_split_loop_j_unchecked(p1, m1, rest, j + 1)

RECURSIVE find_split_loop_j(_, _, _, _)
find_split_loop_j(p1, m1, rest, j) ==
    IF j >= Len(rest) THEN <<>>
    ELSE LET p2 == slice(rest, 0, j)
             p3 == slice(rest, j, Len(rest))
         IN  IF is_base(p2) /\ is_base(p3)
             THEN << <<p1, m1>>, <<p2, parse_greedy_v5(p2).matched>>,
                     <<p3, parse_greedy_v5(p3).matched>> >>
             ELSE find_split_loop_j(p1, m1, rest, j + 1)

\* the outer loop of find_split trying the later split points first
RECURSIVE find_split_loop_i_latest_first(_, _)
find_split_loop_i_latest_first(w, i) ==
    IF i >= Len(w) THEN <<>>
    ELSE LET p1 == slice(w, 0, i)
             m1 == parse_greedy_v5(p1).matched
             rest == slice(w, i, Len(w))
             inner == find_split_loop_j(p1, m1, rest, 1)
             later == find_split_loop_i_latest_first(w, i + 1)
         IN  IF later # <<>> THEN later
             ELSE IF ~is_base(p1) THEN <<>>
             ELSE IF is_base(rest)
             THEN << <<p1, m1>>, <<rest, parse_greedy_v5(rest).matched>> >>
             ELSE inner

\* for i in range(1, len(word)): ...
RECURSIVE find_split_loop_i(_, _)
find_split_loop_i(w, i) ==
    IF i >= Len(w) THEN <<>>
    ELSE LET p1 == slice(w, 0, i)
             m1 == parse_greedy_v5(p1).matched
             rest == slice(w, i, Len(w))
             inner == find_split_loop_j(p1, m1, rest, 1)
         IN  IF ~is_base(p1) THEN find_split_loop_i(w, i + 1)
             ELSE IF is_base(rest)
             THEN << <<p1, m1>>, <<rest, parse_greedy_v5(rest).matched>> >>
             ELSE IF inner # <<>> THEN inner
             ELSE find_split_loop_i(w, i + 1)

\* find_split looking for a split into two blocks at every split point before it
\* looks for one into three
find_split_two_blocks_first(w) ==
    IF is_base(w) THEN << <<w, parse_greedy_v5(w).matched>> >>
    ELSE LET two == is_v4_match_loop(w, 1)
         IN  IF two.ok THEN two.parts ELSE find_split_loop_i(w, 1)

find_split(w) ==
    IF is_base(w) THEN << <<w, parse_greedy_v5(w).matched>> >>
    ELSE find_split_loop_i(w, 1)

----------------------------------------------------------------------------
(* v6, v7, v8: at most four blocks; the three modules differ in the grammar only *)

\* is_base of the module whose grammar is g
is_base_of(w, g) ==
    LET p == parse_greedy(w, g)
    IN  p.remaining = <<>> /\ p.matched # <<>>

\* for k in range(1, len(rest2)): ...
RECURSIVE is_v6_loop_k(_, _, _)
is_v6_loop_k(rest2, g, k) ==
    IF k >= Len(rest2) THEN FALSE
    ELSE IF is_base_of(slice(rest2, 0, k), g) /\ is_base_of(slice(rest2, k, Len(rest2)), g)
    THEN TRUE
    ELSE is_v6_loop_k(rest2, g, k + 1)

\* for j in range(1, len(rest)): ...
RECURSIVE is_v6_loop_j(_, _, _)
is_v6_loop_j(rest, g, j) ==
    IF j >= Len(rest) THEN FALSE
    ELSE LET p2 == slice(rest, 0, j)
             rest2 == slice(rest, j, Len(rest))
         IN  IF ~is_base_of(p2, g) THEN is_v6_loop_j(rest, g, j + 1)
             ELSE IF is_base_of(rest2, g) THEN TRUE
             ELSE IF is_v6_loop_k(rest2, g, 1) THEN TRUE
             ELSE is_v6_loop_j(rest, g, j + 1)

\* the outer loop of is_v6 without the two-block shortcut
RECURSIVE is_v6_loop_i_no_shortcut(_, _, _)
is_v6_loop_i_no_shortcut(w, g, i) ==
    IF i >= Len(w) THEN FALSE
    ELSE LET p1 == slice(w, 0, i)
             rest == slice(w, i, Len(w))
         IN  IF ~is_base_of(p1, g) THEN is_v6_loop_i_no_shortcut(w, g, i + 1)
             ELSE IF is_v6_loop_j(rest, g, 1) THEN TRUE
             ELSE is_v6_loop_i_no_shortcut(w, g, i + 1)

\* for i in range(1, len(word)): ...
RECURSIVE is_v6_loop_i(_, _, _)
is_v6_loop_i(w, g, i) ==
    IF i >= Len(w) THEN FALSE
    ELSE LET p1 == slice(w, 0, i)
             rest == slice(w, i, Len(w))
         IN  IF ~is_base_of(p1, g) THEN is_v6_loop_i(w, g, i + 1)
             ELSE IF is_base_of(rest, g) THEN TRUE
             ELSE IF is_v6_loop_j(rest, g, 1) THEN TRUE
             ELSE is_v6_loop_i(w, g, i + 1)

\* the bodies of is_v6, is_v7 and is_v8, without their caches
is_v6(w) == IF is_base_of(w, SLOTS_V4) THEN TRUE ELSE is_v6_loop_i(w, SLOTS_V4, 1)

is_v7(w) == IF is_base_of(w, SLOTS_V7) THEN TRUE ELSE is_v6_loop_i(w, SLOTS_V7, 1)

is_v8(w) == IF is_base_of(w, SLOTS_V8) THEN TRUE ELSE is_v6_loop_i(w, SLOTS_V8, 1)

----------------------------------------------------------------------------
(* functools.lru_cache(maxsize=None): a call with a key the cache holds returns
   the stored value and does not run the body; any other call runs the body,
   stores its value under the key and returns it *)

\* a cache that takes any stored token of the same length for the key
lru_cache_by_length(c, key, body) ==
    IF \E k \in DOMAIN c : Len(k) = Len(key)
    THEN [ret |-> c[CHOOSE k \in DOMAIN c : Len(k) = Len(key)], cache |-> c, hit |-> TRUE]
    ELSE [ret |-> body,
          cache |-> [x \in DOMAIN c \cup {key} |-> IF x = key THEN body ELSE c[x]],
          hit |-> FALSE]

lru_cache(c, key, body) ==
    IF key \in DOMAIN c
    THEN [ret |-> c[key], cache |-> c, hit |-> TRUE]
    ELSE [ret |-> body,
          cache |-> [x \in DOMAIN c \cup {key} |-> IF x = key THEN body ELSE c[x]],
          hit |-> FALSE]

----------------------------------------------------------------------------
(* Operations *)

\* no call of unknown_chars_in, no run of a main
NoScan == text_i = 0 /\ text_result = <<>>
NoMain ==
    /\ version = "none"
    /\ words = <<>>
    /\ matched_words = <<>>
    /\ unmatched_words = <<>>
    /\ report = <<>>

CachedNames == {"is_v5", "is_v6", "is_v7", "is_v8"}
EmptyCache == [f \in CachedNames |-> [x \in {} |-> FALSE]]

Init ==
    /\ \/ slots \in GenGrammars /\ word \in GenWords
       \/ slots \in VersionGrammars \cup {SH} /\ word \in Words
    /\ op = "none"
    /\ matched = <<>>
    /\ remaining = <<>>
    /\ ok = FALSE
    /\ parts = <<>>
    /\ cache = EmptyCache
    /\ hit = FALSE
    /\ raised = FALSE
    /\ NoScan
    /\ NoMain

\* matched, remaining = parse_greedy(word, slots); with slots = SLOTS this is
\* also parse_greedy(word) of v1
ParseGreedy ==
    /\ op = "none"
    /\ op' = "parse_greedy"
    /\ LET p == parse_greedy(word, slots)
       IN  matched' = p.matched /\ remaining' = p.remaining
    /\ raised' = FALSE
    /\ UNCHANGED <<slots, word, ok, parts, cache, hit, scan, batch>>

\* a call of a predicate that returns a bool and touches nothing else
Returns(name, value) ==
    /\ op = "none"
    /\ op' = name
    /\ ok' = value
    /\ raised' = FALSE
    /\ UNCHANGED <<slots, word, matched, remaining, parts, cache, hit, scan, batch>>

\* a call of a search that returns (matched, parts)
ReturnsParts(name, result) ==
    /\ op = "none"
    /\ op' = name
    /\ LET r == result
       IN  ok' = r.ok /\ parts' = r.parts
    /\ raised' = FALSE
    /\ UNCHANGED <<slots, word, matched, remaining, cache, hit, scan, batch>>

\* is_match(word, slots) of v2
IsMatch == op = "none" /\ Returns("is_match", is_match(word, slots))

\* is_match(word) of v1
IsMatchV1 == slots = SLOTS /\ Returns("is_match_v1", is_match_v1(word))

\* v3
IsV2Match == slots = SLOTS_V2 /\ Returns("is_v2_match", is_v2_match(word))

IsV3Match ==
    /\ slots \in {SLOTS_V2, SH}
    /\ ReturnsParts("is_v3_match", is_v3_match_over(word, slots))

\* v4
IsV4Base == slots = SLOTS_V4 /\ Returns("is_v4_base", is_v4_base(word))

IsV4Match == slots = SLOTS_V4 /\ ReturnsParts("is_v4_match", is_v4_match(word))

\* v5 .. v8: is_base of the module whose grammar is in use
IsBase ==
    /\ slots \in {SLOTS_V4, SLOTS_V7, SLOTS_V8}
    /\ Returns("is_base", IF slots = SLOTS_V4 THEN is_base(word) ELSE is_base_of(word, slots))

\* find_split(word) of v5: [] stands for "no split"
FindSplit ==
    /\ slots = SLOTS_V4
    /\ op = "none"
    /\ op' = "find_split"
    /\ parts' = find_split(word)
    /\ ok' = (parts' # <<>>)
    /\ raised' = FALSE
    /\ UNCHANGED <<slots, word, matched, remaining, cache, hit, scan, batch>>

\* a call of the lru_cache-decorated predicate `name` on token w
CachedCall(name, w, body) ==
    LET r == lru_cache(cache[name], w, body)
    IN  /\ word' = w
        /\ op' = name
        /\ ok' = r.ret
        /\ cache' = [cache EXCEPT ![name] = r.cache]
        /\ hit' = r.hit
        /\ raised' = FALSE
        /\ UNCHANGED <<slots, matched, remaining, parts, scan, batch>>

CallIsV5(w) == CachedCall("is_v5", w, is_v5(w))

CallIsV6(w) == CachedCall("is_v6", w, is_v6(w))

CallIsV7(w) == CachedCall("is_v7", w, is_v7(w))

CallIsV8(w) == CachedCall("is_v8", w, is_v8(w))

IsV5 == op = "none" /\ slots = SLOTS_V4 /\ CallIsV5(word)

IsV6 == op = "none" /\ slots = SLOTS_V4 /\ CallIsV6(word)

IsV7 == op = "none" /\ slots = SLOTS_V7 /\ CallIsV7(word)

IsV8 == op = "none" /\ slots = SLOTS_V8 /\ CallIsV8(word)

\* unknown_chars_in(text) of v1, text being the token: result = [], i = 0
UnknownCharsIn ==
    /\ op = "none"
    /\ slots \in {SLOTS, SH}
    /\ op' = "unknown_chars_in: while"
    /\ text_i' = 0
    /\ text_result' = <<>>
    /\ raised' = FALSE
    /\ UNCHANGED <<slots, word, matched, remaining, ok, parts, cache, hit, batch>>

\* while i < len(text): one iteration
UnknownCharsInLoop ==
    /\ op = "unknown_chars_in: while"
    /\ text_i < Len(word)
    /\ LET s == unknown_chars_in_step(word, ALL_OPTIONS(slots), text_i, text_result)
       IN  text_i' = s.i /\ text_result' = s.result
    /\ UNCHANGED <<slots, word, op, matched, remaining, ok, parts, cache, hit, raised, batch>>

\* return result
UnknownCharsInReturn ==
    /\ op = "unknown_chars_in: while"
    /\ ~(text_i < Len(word))
    /\ op' = "unknown_chars_in"
    /\ UNCHANGED <<slots, word, matched, remaining, ok, parts, cache, hit, raised, scan, batch>>

Next ==
    \/ UnknownCharsIn
    \/ UnknownCharsInLoop
    \/ UnknownCharsInReturn
    \/ ParseGreedy
    \/ IsMatch
    \/ IsMatchV1
    \/ IsV2Match
    \/ IsV3Match
    \/ IsV4Base
    \/ IsV4Match
    \/ IsBase
    \/ FindSplit
    \/ IsV5
    \/ IsV6
    \/ IsV7
    \/ IsV8

Spec == Init /\ [][Next]_vars

\* a call that was started runs on: the interpreter executes the next statement
\* of a function that has not returned
SpecFair == Spec /\ WF_vars(UnknownCharsInLoop) /\ WF_vars(UnknownCharsInReturn)

----------------------------------------------------------------------------
(* Repeated calls of the memoized predicates within one run of v5 .. v8 *)

\* tokens called repeatedly: no match, one to four blocks, with and without the
\* glyphs added in v7 and v8, several of each length
CacheWords ==
    { <<>>, <<"s">>, <<"v">>, <<"z">>, <<"h", "h">>, <<"v", "s">>, <<"s", "z">>,
      <<"s", "h", "h">>, <<"h", "h", "h">>, <<"h", "h", "h", "h">>, <<"h", "v", "z", "h">> }

CachedEntries == Cardinality(DOMAIN cache["is_v5"]) + Cardinality(DOMAIN cache["is_v6"])
                    + Cardinality(DOMAIN cache["is_v7"]) + Cardinality(DOMAIN cache["is_v8"])

\* the caches are unbounded (maxsize=None); the exploration stops adding entries
\* at MaxCached and goes on with calls the caches can answer
MayCall(name, w) == w \in DOMAIN cache[name] \/ CachedEntries < MaxCached

InitCache ==
    /\ slots \in {SLOTS_V4, SLOTS_V7, SLOTS_V8}
    /\ word = <<>>
    /\ op = "none"
    /\ matched = <<>>
    /\ remaining = <<>>
    /\ ok = FALSE
    /\ parts = <<>>
    /\ cache = EmptyCache
    /\ hit = FALSE
    /\ raised = FALSE
    /\ NoScan
    /\ NoMain

AgainIsV5 == \E w \in CacheWords : slots = SLOTS_V4 /\ MayCall("is_v5", w) /\ CallIsV5(w)

AgainIsV6 == \E w \in CacheWords : slots = SLOTS_V4 /\ MayCall("is_v6", w) /\ CallIsV6(w)

AgainIsV7 == \E w \in CacheWords : slots = SLOTS_V7 /\ MayCall("is_v7", w) /\ CallIsV7(w)

AgainIsV8 == \E w \in CacheWords : slots = SLOTS_V8 /\ MayCall("is_v8", w) /\ CallIsV8(w)

NextCache ==
    \/ AgainIsV5
    \/ AgainIsV6
    \/ AgainIsV7
    \/ AgainIsV8

SpecCache == InitCache /\ [][NextCache]_vars

----------------------------------------------------------------------------
(* main of each module: the classification of the word list and, in v1, the   *)
(* slot-extension candidates of the exploration report                        *)

\* parse_cache[word] = parse_greedy(word), filled in the loop of v1's main
parse_cache(w) == parse_greedy_v1(w)

\* counter[key] += 1; a Counter is the list of its (key, count) items in the
\* order of first insertion
counter_add(c, key) ==
    IF \E k \in DOMAIN c : c[k][1] = key
    THEN [k \in DOMAIN c |-> IF c[k][1] = key THEN <<key, c[k][2] + 1>> ELSE c[k]]
    ELSE Append(c, <<key, 1>>)

\* Counter(values)
RECURSIVE Counter(_, _)
Counter(values, c) ==
    IF values = <<>> THEN c ELSE Counter(Tail(values), counter_add(c, values[1]))

\* counter.most_common(n): the n items of greatest count, greatest first, items
\* of equal count in the order of insertion
RECURSIVE most_common(_, _)
most_common(c, n) ==
    IF n = 0 \/ c = <<>> THEN <<>>
    ELSE LET k == CHOOSE x \in DOMAIN c :
                      /\ \A y \in DOMAIN c : c[y][2] <= c[x][2]
                      /\ \A y \in 1..(x - 1) : c[y][2] < c[x][2]
         IN  <<c[k]>> \o most_common(SubSeq(c, 1, k - 1) \o SubSeq(c, k + 1, Len(c)), n - 1)

\* for word in unmatched_words: if remaining: head1_counter[remaining[0]] += 1
RECURSIVE head1_counter(_, _)
head1_counter(uw, c) ==
    IF uw = <<>> THEN c
    ELSE LET rem == parse_cache(uw[1]).remaining
         IN  head1_counter(Tail(uw), IF rem # <<>> THEN counter_add(c, rem[1]) ELSE c)

\* last_matched_slot = su[-1][0] if su else -1
last_matched_slot(su) == IF su # <<>> THEN su[Len(su)][1] ELSE -1

\* for word in unmatched_words: if remaining and remaining[0] == ch:
\*     candidate_slots.append(last_matched_slot + 1)
RECURSIVE candidate_slots(_, _)
candidate_slots(uw, ch) ==
    IF uw = <<>> THEN <<>>
    ELSE LET p == parse_cache(uw[1])
         IN  (IF p.remaining # <<>> /\ p.remaining[1] = ch
              THEN <<last_matched_slot(p.matched) + 1>>
              ELSE <<>>) \o candidate_slots(Tail(uw), ch)

\* the candidate loop without its range test on most_common_slot
RECURSIVE slot_candidates_unchecked(_, _)
slot_candidates_unchecked(top_heads, uw) ==
    IF top_heads = <<>> THEN <<>>
    ELSE LET ch == top_heads[1][1]
             cnt == top_heads[1][2]
             cs == candidate_slots(uw, ch)
         IN  (IF cs # <<>>
              THEN << <<ch, cnt, most_common(Counter(cs, <<>>), 1)[1][1]>> >>
              ELSE <<>>) \o slot_candidates_unchecked(Tail(top_heads), uw)

\* for ch, cnt in top_heads: ...: the (ch, cnt, most_common_slot) of the lines
\* appended to the report
RECURSIVE slot_candidates(_, _)
slot_candidates(top_heads, uw) ==
    IF top_heads = <<>> THEN <<>>
    ELSE LET ch == top_heads[1][1]
             cnt == top_heads[1][2]
             cs == candidate_slots(uw, ch)
             most_common_slot == most_common(Counter(cs, <<>>), 1)[1][1]
         IN  (IF cs # <<>> /\ 0 <= most_common_slot /\ most_common_slot < Len(SLOTS)
              THEN << <<ch, cnt, most_common_slot>> >>
              ELSE <<>>) \o slot_candidates(Tail(top_heads), uw)

\* v3: for i in range(1, len(w)): ... if r2 and len(r2) < len(best_rem): best_rem = r2
RECURSIVE best_rem_v3_loop(_, _, _)
best_rem_v3_loop(w, i, best_rem) ==
    IF i >= Len(w) THEN best_rem
    ELSE LET p1 == slice(w, 0, i)
             p2 == slice(w, i, Len(w))
             r1 == parse_greedy(p1, SLOTS_V2)
             r2 == parse_greedy(p2, SLOTS_V2).remaining
         IN  IF r1.remaining # <<>> \/ r1.matched = <<>>
             THEN best_rem_v3_loop(w, i + 1, best_rem)
             ELSE IF r2 # <<>> /\ Len(r2) < Len(best_rem)
             THEN best_rem_v3_loop(w, i + 1, r2)
             ELSE best_rem_v3_loop(w, i + 1, best_rem)

\* v3: best_rem = w; if r0 and len(r0) < len(best_rem): best_rem = r0; the loop
best_rem_v3(w) ==
    LET r0 == parse_greedy(w, SLOTS_V2).remaining
    IN  best_rem_v3_loop(w, 1, IF r0 # <<>> /\ Len(r0) < Len(w) THEN r0 ELSE w)

\* the loop of v4 taking the leftover of every suffix, whatever its prefix
RECURSIVE best_rem_v4_loop_any_prefix(_, _, _)
best_rem_v4_loop_any_prefix(w, i, best_rem) ==
    IF i >= Len(w) THEN best_rem
    ELSE LET r2 == parse_greedy(slice(w, i, Len(w)), SLOTS_V4).remaining
         IN  IF Len(r2) < Len(best_rem)
             THEN best_rem_v4_loop_any_prefix(w, i + 1, r2)
             ELSE best_rem_v4_loop_any_prefix(w, i + 1, best_rem)

\* v4: for i in range(1, len(w)): ... if len(r2) < len(best_rem): best_rem = r2
RECURSIVE best_rem_v4_loop(_, _, _)
best_rem_v4_loop(w, i, best_rem) ==
    IF i >= Len(w) THEN best_rem
    ELSE LET p1 == slice(w, 0, i)
             p2 == slice(w, i, Len(w))
             r1 == parse_greedy(p1, SLOTS_V4)
             r2 == parse_greedy(p2, SLOTS_V4).remaining
         IN  IF r1.remaining # <<>> \/ r1.matched = <<>>
             THEN best_rem_v4_loop(w, i + 1, best_rem)
             ELSE IF Len(r2) < Len(best_rem)
             THEN best_rem_v4_loop(w, i + 1, r2)
             ELSE best_rem_v4_loop(w, i + 1, best_rem)

\* v4: m, r = parse_greedy(w, SLOTS_V4); best_rem = r if r else w; the loop
best_rem_v4(w) ==
    LET r == parse_greedy(w, SLOTS_V4).remaining
    IN  best_rem_v4_loop(w, 1, IF r # <<>> THEN r ELSE w)

\* for w in unmatched: ...; if best_rem: rem_head[best_rem[0]] += 1;
\* rem_full[best_rem[:n]] += 1; best_rems is the best_rem of each token in turn
RECURSIVE residues(_, _, _)
residues(best_rems, n, acc) ==
    IF best_rems = <<>> THEN acc
    ELSE LET best_rem == best_rems[1]
         IN  residues(Tail(best_rems), n,
                IF best_rem # <<>>
                THEN [best_rem |-> Append(acc.best_rem, best_rem),
                      rem_head |-> counter_add(acc.rem_head, best_rem[1]),
                      rem_full |-> counter_add(acc.rem_full, slice(best_rem, 0, n))]
                ELSE [acc EXCEPT !.best_rem = Append(@, best_rem)])

\* the list a loop iteration appends to, with the token put in front instead
classify_in_front(w, is_matched, mw, uw) ==
    IF is_matched
    THEN [matched_words |-> <<w>> \o mw, unmatched_words |-> uw]
    ELSE [matched_words |-> mw, unmatched_words |-> <<w>> \o uw]

\* if <matched>: matched.append(word) else: unmatched.append(word)
classify(w, is_matched, mw, uw) ==
    IF is_matched
    THEN [matched_words |-> Append(mw, w), unmatched_words |-> uw]
    ELSE [matched_words |-> mw, unmatched_words |-> Append(uw, w)]

\* the modules, the grammar each main classifies with, and the modules whose
\* main classifies in a per-token loop
Versions == {"v1", "v2", "v3", "v4", "v5", "v6", "v7", "v8"}
GrammarOf(v) ==
    CASE v = "v1" -> SLOTS
      [] v \in {"v2", "v3"} -> SLOTS_V2
      [] v \in {"v4", "v5", "v6"} -> SLOTS_V4
      [] v = "v7" -> SLOTS_V7
      [] v = "v8" -> SLOTS_V8

\* the tokens of the word lists given to each main: around the token that
\* version is the first to accept (v1 .. v8: "s", "h", "shh", "c", "hhh", "hhhh",
\* "v", "z"); for v1 also the tokens that make the report's candidates differ,
\* for v3 a token whose leftover is shorter after a split
MainTokens(v) ==
    CASE v = "v1" -> {<<"s">>, <<"h">>, <<"s", "h">>, <<"k", "k", "k", "k">>}
      [] v = "v2" -> {<<"s">>, <<"h">>, <<"c">>}
      [] v = "v3" -> {<<"h">>, <<"s", "h", "h">>, <<"c">>, <<"s", "h", "h", "c">>}
      [] v = "v4" -> {<<"s", "h", "h">>, <<"c">>, <<"h", "h", "h">>}
      [] v = "v5" -> {<<"c">>, <<"h", "h", "h">>, <<"h", "h", "h", "h">>}
      [] v = "v6" -> {<<"h", "h", "h">>, <<"h", "h", "h", "h">>, <<"v">>}
      [] v = "v7" -> {<<"h", "h", "h", "h">>, <<"v">>, <<"z">>}
      [] v = "v8" -> {<<"v">>, <<"z">>, <<"h", "h", "h", "h", "h">>}

\* a word list of v1 with eleven leading leftover characters: "2" is the least
\* frequent, "h" follows slot 0 twice and no slot once, "c" follows the last slot
ElevenHeads ==
    << <<"b">>, <<"b">>, <<"k", "k", "k", "c">>, <<"k", "k", "k", "c">>,
       <<"s", "h">>, <<"h">>, <<"s", "h">>, <<"j">>, <<"j">>, <<"u">>, <<"u">>,
       <<"v">>, <<"v">>, <<"w">>, <<"w">>, <<"z">>, <<"z">>, <<"0">>, <<"0">>,
       <<"1">>, <<"1">>, <<"2">> >>

\* main has read the word list (stripped, non-blank lines) and classified nothing
InitMain ==
    /\ version \in Versions
    /\ \/ words \in SeqsUpTo(MainTokens(version), MaxWords)
       \/ version = "v1" /\ words = ElevenHeads
    /\ slots = GrammarOf(version)
    /\ op = "main"
    /\ word = <<>>
    /\ matched = <<>>
    /\ remaining = <<>>
    /\ ok = FALSE
    /\ parts = <<>>
    /\ cache = EmptyCache
    /\ hit = FALSE
    /\ raised = FALSE
    /\ NoScan
    /\ matched_words = <<>>
    /\ unmatched_words = <<>>
    /\ report = <<>>

\* the position of `for word in words`: the tokens classified so far
classified == Len(matched_words) + Len(unmatched_words)

\* one iteration of the loop of a main that classifies with a plain call
MainLoop(v, is_matched) ==
    /\ op = "main"
    /\ version = v
    /\ classified < Len(words)
    /\ word' = words[classified + 1]
    /\ ok' = is_matched
    /\ LET c == classify(word', ok', matched_words, unmatched_words)
       IN  /\ matched_words' = c.matched_words
           /\ unmatched_words' = c.unmatched_words
    /\ UNCHANGED <<slots, op, cache, hit, raised, scan, version, words, report>>

\* v1: slots_used, remaining = parse_greedy(word); parse_cache[word] = ...
MainV1Loop ==
    /\ MainLoop("v1", is_match_v1(words[classified + 1]))
    /\ LET p == parse_greedy_v1(word')
       IN  matched' = p.matched /\ remaining' = p.remaining
    /\ UNCHANGED parts

\* v3: ok, parts = is_v3_match(word)
MainV3Loop ==
    /\ MainLoop("v3", is_v3_match(words[classified + 1]).ok)
    /\ parts' = is_v3_match(word').parts
    /\ UNCHANGED <<matched, remaining>>

\* v4: ok, parts = is_v4_match(word)
MainV4Loop ==
    /\ MainLoop("v4", is_v4_match(words[classified + 1]).ok)
    /\ parts' = is_v4_match(word').parts
    /\ UNCHANGED <<matched, remaining>>

\* one iteration of the loop of a main that classifies with a memoized predicate
MainCachedLoop(v, name, body) ==
    /\ op = "main"
    /\ version = v
    /\ classified < Len(words)
    /\ word' = words[classified + 1]
    /\ LET r == lru_cache(cache[name], word', body)
       IN  /\ ok' = r.ret
           /\ cache' = [cache EXCEPT ![name] = r.cache]
           /\ hit' = r.hit
    /\ LET c == classify(word', ok', matched_words, unmatched_words)
       IN  /\ matched_words' = c.matched_words
           /\ unmatched_words' = c.unmatched_words
    /\ UNCHANGED <<slots, op, matched, remaining, parts, raised, scan, version, words, report>>

\* v5: if is_v5(word): ...
MainV5Loop ==
    /\ version = "v5"
    /\ MainCachedLoop("v5", "is_v5", is_v5(words[classified + 1]))

MainV6Loop ==
    /\ version = "v6"
    /\ MainCachedLoop("v6", "is_v6", is_v6(words[classified + 1]))

MainV7Loop ==
    /\ version = "v7"
    /\ MainCachedLoop("v7", "is_v7", is_v7(words[classified + 1]))

MainV8Loop ==
    /\ version = "v8"
    /\ MainCachedLoop("v8", "is_v8", is_v8(words[classified + 1]))

\* the end of the loop: the percentages printed next divide by len(words)
MainLoopEnd ==
    /\ op = "main"
    /\ version # "v2"
    /\ classified = Len(words)
    /\ op' = "main: classified"
    /\ raised' = (Len(words) = 0)
    /\ UNCHANGED <<slots, word, matched, remaining, ok, parts, cache, hit, scan, batch>>

\* w in a list
InList(w, list) == \E k \in DOMAIN list : list[k] = w

\* v2: the lists are comprehensions over words; matched_words / unmatched_words
\* are matched_v2 / unmatched_v2, the lists of the comparison are kept in report
MainV2 ==
    /\ op = "main"
    /\ version = "v2"
    /\ LET matched_v1 == SelectSeq(words, LAMBDA w : is_match(w, SLOTS))
           matched_v2 == SelectSeq(words, LAMBDA w : is_match(w, SLOTS_V2))
           unmatched_v1 == SelectSeq(words, LAMBDA w : ~InList(w, matched_v1))
           unmatched_v2 == SelectSeq(words, LAMBDA w : ~InList(w, matched_v2))
       IN  /\ matched_words' = matched_v2
           /\ unmatched_words' = unmatched_v2
           /\ report' =
                [matched_v1 |-> matched_v1,
                 unmatched_v1 |-> unmatched_v1,
                 newly_matched |->
                    SelectSeq(words, LAMBDA w : InList(w, unmatched_v1) /\ InList(w, matched_v2)),
                 still_unmatched |->
                    SelectSeq(words, LAMBDA w : InList(w, unmatched_v1) /\ InList(w, unmatched_v2))]
    /\ op' = "main: classified"
    /\ raised' = (Len(words) = 0)
    /\ UNCHANGED <<slots, word, matched, remaining, ok, parts, cache, hit, scan, version, words>>

\* v1: the slot-extension candidates (section I of the exploration report)
MainV1Report ==
    /\ op = "main: classified"
    /\ version = "v1"
    /\ ~raised
    /\ LET top_heads == most_common(head1_counter(unmatched_words, <<>>), 10)
       IN  report' = slot_candidates(top_heads, unmatched_words)
    /\ op' = "main: report"
    /\ UNCHANGED <<slots, word, matched, remaining, ok, parts, cache, hit, raised, scan,
                   version, words, matched_words, unmatched_words>>

\* v3: the best-effort residue of the unmatched tokens (rem_head1, rem_full)
MainV3Report ==
    /\ op = "main: classified"
    /\ version = "v3"
    /\ ~raised
    /\ report' = residues([k \in DOMAIN unmatched_words |-> best_rem_v3(unmatched_words[k])], 4,
                          [best_rem |-> <<>>, rem_head |-> <<>>, rem_full |-> <<>>])
    /\ op' = "main: residues"
    /\ UNCHANGED <<slots, word, matched, remaining, ok, parts, cache, hit, raised, scan,
                   version, words, matched_words, unmatched_words>>

\* v4: the residue of the unmatched tokens (rem_head, rem_full)
MainV4Report ==
    /\ op = "main: classified"
    /\ version = "v4"
    /\ ~raised
    /\ report' = residues([k \in DOMAIN unmatched_words |-> best_rem_v4(unmatched_words[k])], 5,
                          [best_rem |-> <<>>, rem_head |-> <<>>, rem_full |-> <<>>])
    /\ op' = "main: residues"
    /\ UNCHANGED <<slots, word, matched, remaining, ok, parts, cache, hit, raised, scan,
                   version, words, matched_words, unmatched_words>>

NextMain ==
    \/ MainV3Report
    \/ MainV4Report
    \/ MainV1Loop
    \/ MainV3Loop
    \/ MainV4Loop
    \/ MainV5Loop
    \/ MainV6Loop
    \/ MainV7Loop
    \/ MainV8Loop
    \/ MainLoopEnd
    \/ MainV2
    \/ MainV1Report

SpecMain == InitMain /\ [][NextMain]_vars

----------------------------------------------------------------------------
(* Vocabulary of the properties *)

\* the options of a list of (slot index, option) pairs, concatenated in order
RECURSIVE ConcatOptions(_)
ConcatOptions(m) ==
    IF m = <<>> THEN <<>> ELSE m[1][2] \o ConcatOptions(Tail(m))

\* the blocks of a witness, concatenated in order
RECURSIVE ConcatBlocks(_)
ConcatBlocks(ps) ==
    IF ps = <<>> THEN <<>> ELSE ps[1][1] \o ConcatBlocks(Tail(ps))

\* parse_greedy(w, g) has an empty leftover and at least one matched pair
FullParse(w, g) ==
    LET p == parse_greedy(w, g)
    IN  p.remaining = <<>> /\ p.matched # <<>>

\* w is the concatenation of k non-empty substrings, 1 <= k <= K, each a full
\* match of g: some set of at most K - 1 cut positions inside w leaves only
\* full-matching pieces
Decomposable(w, g, K) ==
    LET piece == [a \in 0..Len(w) |-> [b \in (a + 1)..Len(w) |-> FullParse(slice(w, a, b), g)]]
    IN  /\ w # <<>>
        /\ \E cuts \in SUBSET (1..(Len(w) - 1)) :
              /\ Cardinality(cuts) <= K - 1
              /\ LET ends == cuts \cup {0, Len(w)}
                 IN  \A a, b \in ends :
                        (a < b /\ ~\E c \in ends : a < c /\ c < b) => piece[a][b]

\* the predicates that decide a single-pass full match
FullMatchOps == {"is_match", "is_match_v1", "is_v2_match", "is_v4_base", "is_base"}

\* the searches that return a witness, and the block budget of each search
WitnessOps == {"is_v3_match", "is_v4_match", "find_split"}
SearchOps == {"is_v3_match", "is_v4_match", "is_v5", "is_v6", "is_v7", "is_v8"}
Budget(name) ==
    CASE name \in {"is_v3_match", "is_v4_match"} -> 2
      [] name \in {"is_v5", "find_split"} -> 3
      [] OTHER -> 4

----------------------------------------------------------------------------
(* Properties *)

\* C1: the options of the pairs parse_greedy returns, concatenated in order,
\* followed by the leftover, are the token: nothing is invented or dropped
C1_ParseReconstructsToken ==
    op = "parse_greedy" => ConcatOptions(matched) \o remaining = word

\* a parse that matched in two slots or more and stopped at a character that
\* occurs in no option of the grammar
C1_Witness ==
    /\ op = "parse_greedy"
    /\ Len(matched) >= 2
    /\ remaining # <<>>
    /\ \A i \in DOMAIN slots : \A n \in DOMAIN slots[i] : \A k \in DOMAIN slots[i][n] :
            slots[i][n][k] # remaining[1]

\* C2: a full-match predicate is true exactly when parse_greedy of the token has
\* an empty leftover and a non-empty list of pairs
C2_FullMatchIffParse ==
    op \in FullMatchOps =>
        LET p == parse_greedy(word, slots)
        IN  ok <=> (p.remaining = <<>> /\ Len(p.matched) >= 1)

\* a predicate answered false for a token whose parse has an empty leftover
C2_Witness ==
    op \in FullMatchOps /\ ~ok /\ parse_greedy(word, slots).remaining = <<>>

\* C3: a returned witness has 1..budget blocks, all non-empty, which concatenate
\* to the token; each block is a full match and carries its own parse
C3_WitnessIsValid ==
    (op \in WitnessOps /\ ok) =>
        /\ Len(parts) >= 1
        /\ Len(parts) <= Budget(op)
        /\ ConcatBlocks(parts) = word
        /\ \A n \in DOMAIN parts :
              /\ parts[n][1] # <<>>
              /\ FullParse(parts[n][1], slots)
              /\ parts[n][2] = parse_greedy(parts[n][1], slots).matched

\* find_split returned three blocks
C3_Witness ==
    op = "find_split" /\ Len(parts) > 2

RECURSIVE LeftmostCommit(_, _, _)
LeftmostCommit(w, g, K) ==
    IF FullParse(w, g) THEN TRUE
    ELSE IF K <= 1 THEN FALSE
    ELSE LET cand == {i \in 1..(Len(w) - 1) : FullParse(slice(w, 0, i), g)}
         IN  IF cand = {} THEN FALSE
             ELSE LET i == CHOOSE x \in cand : \A y \in cand : x <= y
                  IN  LeftmostCommit(slice(w, i, Len(w)), g, K - 1)

\* C5 as stated: the search commits to the leftmost full-matching prefix, so it
\* answers what the leftmost-only search answers and misses the tokens whose
\* only decompositions start with a longer first block
C5_CommitsToLeftmostPrefix ==
    op \in SearchOps => (ok <=> LeftmostCommit(word, slots, Budget(op)))

\* C5 amended: the search goes on to the later split points; whatever split
\* point has a full-matching prefix and a remainder that decomposes within the
\* remaining budget, the token is reported as matching
C5_TriesEverySplitPoint ==
    (op \in SearchOps /\ ~ok) =>
        \A i \in 1..(Len(word) - 1) :
            ~(/\ FullParse(slice(word, 0, i), slots)
              /\ Decomposable(slice(word, i, Len(word)), slots, Budget(op) - 1))

\* a token accepted although the leftmost-only search fails on it
C5_Witness ==
    op \in {"is_v3_match", "is_v5"} /\ ok /\ ~LeftmostCommit(word, slots, Budget(op))

\* C6: over SLOTS_V4 a match at one budget is a match at the next:
\* is_v4_base => is_v4_match => is_v5 => is_v6
C6_BudgetMonotone ==
    /\ (op = "is_v4_base" /\ ok) => is_v4_match(word).ok
    /\ (op = "is_v4_match" /\ ok) => is_v5(word)
    /\ (op = "is_v5" /\ ok) => is_v6(word)

\* a match of is_v4_match that takes two blocks
C6_Witness ==
    op = "is_v4_match" /\ ok /\ Len(parts) = 2

\* the uncached body of a memoized predicate
Body(name, w) ==
    CASE name = "is_v5" -> is_v5(w)
      [] name = "is_v6" -> is_v6(w)
      [] name = "is_v7" -> is_v7(w)
      [] name = "is_v8" -> is_v8(w)

\* C7: whatever was called before, a memoized predicate returns what its body
\* returns for the token, and every stored entry is the body's value
C7_CacheNeverChangesResult ==
    /\ op \in CachedNames => ok = Body(op, word)
    /\ \A f \in CachedNames : \A w \in DOMAIN cache[f] : cache[f][w] = Body(f, w)

\* a call answered from a cache that holds another token as well
C7_Witness ==
    op \in CachedNames /\ hit /\ Cardinality(DOMAIN cache[op]) >= 2

\* C8: the empty token is never a success
C8_EmptyTokenNeverMatches ==
    word = <<>> =>
        /\ op = "parse_greedy" => (matched = <<>> /\ remaining = <<>>)
        /\ op \in FullMatchOps \cup CachedNames => ~ok
        /\ op \in WitnessOps => (~ok /\ parts = <<>>)

\* is_v5 was called on the empty token
C8_Witness ==
    word = <<>> /\ op = "is_v5"

\* a grammar without slots, or with a slot without options
Malformed(g) == g = <<>> \/ \E i \in DOMAIN g : g[i] = <<>>

\* C9: a call with a malformed grammar ends with an error, never with an
\* ordinary answer
C9_MalformedGrammarRejected ==
    (op \in {"parse_greedy", "is_match"} /\ Malformed(slots)) => raised

\* the cursor before the k-th matched pair: what the earlier pairs consumed
Cursor(m, k) == Len(ConcatOptions(SubSeq(m, 1, k - 1)))

\* C10: each recorded option is the first option of its slot, in the slot's
\* order, that occurs at the cursor reached before that slot
C10_EarliestOptionWins ==
    op = "parse_greedy" =>
        \A k \in DOMAIN matched :
            LET options == slots[matched[k][1] + 1]
                cur == Cursor(matched, k)
            IN  \E n \in DOMAIN options :
                    /\ options[n] = matched[k][2]
                    /\ startswith(word, options[n], cur)
                    /\ \A e \in 1..(n - 1) : ~startswith(word, options[e], cur)

\* slot ["a", "ab"] on "ab": "a" is consumed and "b" is left over
C10_Witness ==
    /\ op = "parse_greedy"
    /\ slots = << << <<"a">>, <<"a", "b">> >> >>
    /\ word = <<"a", "b">>
    /\ matched = << <<0, <<"a">>>> >>
    /\ remaining = <<"b">>

\* C11: with the grammar [["s"], ["h"]], "sh" is a full match in one block, slot 0
\* taking "s" and slot 1 taking "h"; "shh" is no full match in one block, its
\* parse leaving "h"; within two blocks "shh" matches as "sh" + "h", "h" being a
\* full match on its own
C11_TwoSlotExamples ==
    slots = SH =>
        /\ (word = <<"s", "h">> /\ op = "parse_greedy") =>
              (matched = << <<0, <<"s">>>>, <<1, <<"h">>>> >> /\ remaining = <<>>)
        /\ (word = <<"s", "h">> /\ op = "is_match") => ok
        /\ (word = <<"s", "h">> /\ op = "is_v3_match") =>
              (ok /\ parts = << <<word, << <<0, <<"s">>>>, <<1, <<"h">>>> >> >> >>)
        /\ (word = <<"s", "h", "h">> /\ op = "parse_greedy") =>
              (matched = << <<0, <<"s">>>>, <<1, <<"h">>>> >> /\ remaining = <<"h">>)
        /\ (word = <<"s", "h", "h">> /\ op = "is_match") => ~ok
        /\ (word = <<"s", "h", "h">> /\ op = "is_v3_match") =>
              /\ ok
              /\ parts = << << <<"s", "h">>, << <<0, <<"s">>>>, <<1, <<"h">>>> >> >>,
                            << <<"h">>, << <<1, <<"h">>>> >> >> >>
              /\ is_match(<<"h">>, slots)

\* the two-block search was run on "shh" over [["s"], ["h"]]
C11_Witness ==
    slots = SH /\ word = <<"s", "h", "h">> /\ op = "is_v3_match" /\ Len(parts) = 2

\* C12: the slot indices of the pairs parse_greedy returns are indices of the
\* grammar and strictly increasing: no slot contributes twice, and a pair of a
\* lower slot never follows a pair of a higher one
C12_SlotIndicesIncrease ==
    op = "parse_greedy" =>
        /\ \A k \in DOMAIN matched : matched[k][1] \in 0..(Len(slots) - 1)
        /\ \A k \in 1..(Len(matched) - 1) : matched[k][1] < matched[k + 1][1]

\* a parse of three pairs or more with a skipped slot between two of them
C12_Witness ==
    /\ op = "parse_greedy"
    /\ Len(matched) >= 3
    /\ \E k \in 1..(Len(matched) - 1) : matched[k + 1][1] > matched[k][1] + 1

\* the characters that occur in some option of the grammar
KnownChars(g) == UNION {{opt[k] : k \in DOMAIN opt} : opt \in ALL_OPTIONS(g)}

\* C13 as stated: unknown_chars_in returns exactly the characters of the text that
\* occur in no option of the grammar, in text order
C13_FlagsExactlyForeignChars ==
    op = "unknown_chars_in" =>
        text_result = SelectSeq(word, LAMBDA ch : ch \notin KnownChars(slots))

\* a call has returned
Returned == op \notin {"none", "unknown_chars_in: while"}

\* the value a returned call left is of the shape its function promises
WellFormed ==
    /\ ~raised
    /\ ok \in BOOLEAN
    /\ op = "parse_greedy" =>
          /\ Len(matched) <= Len(slots)
          /\ \A k \in DOMAIN matched :
                /\ matched[k][1] \in 0..(Len(slots) - 1)
                /\ matched[k][2] \in ALL_OPTIONS(slots)
          /\ \E k \in 0..Len(word) : remaining = slice(word, k, Len(word))
    /\ op \in WitnessOps =>
          /\ Len(parts) <= Budget(op)
          /\ \A n \in DOMAIN parts : parts[n][1] # <<>> /\ parts[n][2] # <<>>
    /\ op = "unknown_chars_in" =>
          /\ text_i >= Len(word)
          /\ Len(text_result) <= Len(word)
          /\ \A k \in DOMAIN text_result : \E n \in DOMAIN word : text_result[k] = word[n]

\* C14: every call returns, with a well-formed value and without an error; the
\* cursor of unknown_chars_in moves forward by one character or more in every
\* iteration, and a search returns no more blocks than its budget
C14_EveryCallTerminates ==
    /\ (op # "none") ~> Returned
    /\ [](Returned => WellFormed)
    /\ [][op = "unknown_chars_in: while" /\ op' = op => text_i' > text_i]_vars

\* unknown_chars_in returned for a token of the greatest length made only of
\* characters that occur in no option
C14_Witness ==
    /\ op = "unknown_chars_in"
    /\ Len(word) = MaxLen
    /\ \A n \in DOMAIN word : word[n] \notin KnownChars(slots)
    /\ text_result = word

\* C15: under the v1 grammar "sh" is no full match, slot 0 taking "s" and no later
\* slot taking "h", although slot 5 lists "sh"; under the v2 grammar "sh" is a full
\* match parsed as slot 0 "s", slot 1 "h", and "h" is a full match through slot 1
C15_V2RepairsSh ==
    /\ (slots = SLOTS /\ word = <<"s", "h">>) =>
          /\ <<"s", "h">> \in {slots[6][n] : n \in DOMAIN slots[6]}
          /\ op = "parse_greedy" => (matched = << <<0, <<"s">>>> >> /\ remaining = <<"h">>)
          /\ op \in {"is_match", "is_match_v1"} => ~ok
    /\ (slots = SLOTS_V2 /\ word = <<"s", "h">>) =>
          /\ op = "parse_greedy" =>
                (matched = << <<0, <<"s">>>>, <<1, <<"h">>>> >> /\ remaining = <<>>)
          /\ op \in {"is_match", "is_v2_match"} => ok
    /\ (slots = SLOTS_V2 /\ word = <<"h">>) =>
          /\ op = "parse_greedy" => (matched = << <<1, <<"h">>>> >> /\ remaining = <<>>)
          /\ op \in {"is_match", "is_v2_match"} => ok

\* is_match answered for "sh" under the v2 grammar
C15_Witness ==
    slots = SLOTS_V2 /\ word = <<"s", "h">> /\ op = "is_match" /\ ok

\* C16: 'c' at the end of slot 9 breaks nothing: a token that matches within two
\* blocks under the v2 grammar matches is_v4_match, and a token that is a full
\* match in one block under the v2 grammar has the same parse under SLOTS_V4
C16_SlotNineExtensionBreaksNothing ==
    slots = SLOTS_V2 =>
        /\ (op = "is_v3_match" /\ ok) => is_v4_match(word).ok
        /\ (op \in {"is_match", "is_v2_match"} /\ ok) =>
              parse_greedy(word, SLOTS_V4) = parse_greedy(word, SLOTS_V2)

\* a token with a "c" in its second block matched within two blocks under v2
C16_Witness ==
    /\ slots = SLOTS_V2
    /\ op = "is_v3_match"
    /\ ok
    /\ Len(parts) = 2
    /\ \E n \in DOMAIN parts[2][1] : parts[2][1][n] = "c"

\* the split points of w after which both sides are full matches
TwoBlockSplits(w, g) ==
    {n \in 1..(Len(w) - 1) :
        FullParse(slice(w, 0, n), g) /\ FullParse(slice(w, n, Len(w)), g)}

\* C17: the witness of find_split need not have the fewest blocks: for "shh" it
\* has the three blocks "s", "h", "h" although "sh" + "h" is a decomposition into
\* two; whenever it has three blocks and a decomposition into two exists, every
\* such decomposition has a longer first block than the witness
C17_WitnessNotMinimal ==
    op = "find_split" =>
        /\ word = <<"s", "h", "h">> =>
              /\ Len(parts) = 3
              /\ parts[1][1] = <<"s">> /\ parts[2][1] = <<"h">> /\ parts[3][1] = <<"h">>
              /\ 2 \in TwoBlockSplits(word, slots)
        /\ Len(parts) = 3 =>
              \A n \in TwoBlockSplits(word, slots) : n > Len(parts[1][1])

\* find_split returned three blocks for a token of four characters that splits
\* into two full matches
C17_Witness ==
    /\ op = "find_split"
    /\ Len(word) = 4
    /\ Len(parts) = 3
    /\ TwoBlockSplits(word, slots) # {}

\* the first split points of w that find_split can use: the prefix is a full
\* match and the remainder is one or two full matches
FirstSplits(w, g) ==
    {n \in 1..(Len(w) - 1) :
        /\ FullParse(slice(w, 0, n), g)
        /\ Decomposable(slice(w, n, Len(w)), g, 2)}

\* C18: find_split returns the first decomposition of its scan order: the token
\* alone when it is a full match; otherwise the first block is the shortest
\* prefix in FirstSplits, completed by the remainder when the remainder is a full
\* match and otherwise by the shortest split of the remainder into two full
\* matches; it returns nothing only when FirstSplits is empty
C18_FirstInScanOrder ==
    op = "find_split" =>
        IF FullParse(word, slots)
        THEN Len(parts) = 1 /\ parts[1][1] = word
        ELSE IF FirstSplits(word, slots) = {}
        THEN parts = <<>>
        ELSE LET n == CHOOSE x \in FirstSplits(word, slots) :
                          \A y \in FirstSplits(word, slots) : x <= y
                 rest == slice(word, n, Len(word))
             IN  /\ Len(parts) \in {2, 3}
                 /\ parts[1][1] = slice(word, 0, n)
                 /\ IF FullParse(rest, slots)
                    THEN Len(parts) = 2 /\ parts[2][1] = rest
                    ELSE /\ Len(parts) = 3
                         /\ Len(parts[2][1]) \in TwoBlockSplits(rest, slots)
                         /\ \A m \in TwoBlockSplits(rest, slots) : Len(parts[2][1]) <= m
                         /\ parts[2][1] \o parts[3][1] = rest

\* find_split passed over a shorter full-matching prefix, whose remainder does
\* not decompose, and returned three blocks
C18_Witness ==
    /\ op = "find_split"
    /\ Len(parts) = 3
    /\ \E n \in 1..(Len(parts[1][1]) - 1) : FullParse(slice(word, 0, n), slots)

\* of each unmatched token (by position): the first character of its leftover
\* ("" when nothing is left over) and the slot after the last slot that matched
\* in it (0 when no slot matched)
Stuck ==
    [k \in DOMAIN unmatched_words |->
        LET p == parse_greedy(unmatched_words[k], slots)
        IN  [head |-> IF p.remaining = <<>> THEN "" ELSE p.remaining[1],
             next |-> IF p.matched = <<>> THEN 0 ELSE p.matched[Len(p.matched)][1] + 1]]

\* the leading leftover characters of the unmatched tokens
Heads == {Stuck[k].head : k \in DOMAIN Stuck} \ {""}

\* C19: every candidate of the v1 report names one of the 10 most frequent
\* leading leftover characters, the number of unmatched tokens whose leftover
\* begins with it, and a slot of the grammar that is a most common value of
\* "last matched slot + 1" among those tokens; a character among the 10 most
\* frequent is left out only when its most common value is no slot index; the
\* grammar is as it was
C19_SlotSuggestion ==
    (op = "main: report") =>
        LET stuck == Stuck
            heads == {stuck[k].head : k \in DOMAIN stuck} \ {""}
            count == [c \in heads |-> Cardinality({k \in DOMAIN stuck : stuck[k].head = c})]
            votes == [c \in heads |-> [t \in 0..Len(slots) |->
                        Cardinality({k \in DOMAIN stuck :
                                        stuck[k].head = c /\ stuck[k].next = t})]]
        IN  /\ slots = SLOTS
            /\ \A e \in DOMAIN report :
                  LET ch == report[e][1]
                      cnt == report[e][2]
                      s == report[e][3]
                  IN  /\ ch \in heads
                      /\ Cardinality({c \in heads : count[c] > count[ch]}) < 10
                      /\ cnt = count[ch]
                      /\ 0 <= s /\ s < Len(slots)
                      /\ \A t \in 0..Len(slots) : votes[ch][t] <= votes[ch][s]
                      /\ \A f \in DOMAIN report : report[f][1] = ch => f = e
            /\ \A ch \in heads :
                  (/\ Cardinality({c \in heads \ {ch} : count[c] >= count[ch]}) < 10
                   /\ \A t \in 0..Len(slots) :
                          (\A u \in 0..Len(slots) : votes[ch][u] <= votes[ch][t])
                              => t < Len(slots))
                  => \E e \in DOMAIN report : report[e][1] = ch

\* a report over eleven leading characters: the least frequent is cut off and
\* the one whose tokens stopped after the last slot is left out
C19_Witness ==
    /\ op = "main: report"
    /\ Cardinality(Heads) = 11
    /\ Len(report) = 9
    /\ \E e \in DOMAIN report : report[e] = <<"h", 3, 1>>

\* the predicate the main of a module classifies with
Predicate(v, w) ==
    CASE v = "v1" -> is_match_v1(w)
      [] v = "v2" -> is_match(w, SLOTS_V2)
      [] v = "v3" -> is_v3_match(w).ok
      [] v = "v4" -> is_v4_match(w).ok
      [] v = "v5" -> is_v5(w)
      [] v = "v6" -> is_v6(w)
      [] v = "v7" -> is_v7(w)
      [] v = "v8" -> is_v8(w)

\* C20: the classification is a stable partition: the matched list is the
\* tokens classified so far for which the module's predicate holds, the
\* unmatched list the others, both in input order and with every occurrence of
\* a repeated token on the same side; once the classification is over all tokens
\* are classified
C20_StablePartition ==
    LET done == SubSeq(words, 1, classified)
    IN  /\ matched_words = SelectSeq(done, LAMBDA w : Predicate(version, w))
        /\ unmatched_words = SelectSeq(done, LAMBDA w : ~Predicate(version, w))
        /\ op # "main" => classified = Len(words)

\* a classified list of three tokens, the first repeated at the end, with a token
\* on each side
C20_Witness ==
    /\ op = "main: classified"
    /\ version = "v5"
    /\ Len(words) = 3
    /\ words[1] = words[3]
    /\ words[1] # words[2]
    /\ matched_words # <<>>
    /\ unmatched_words # <<>>

\* C21: is_v5 and find_split agree on every token: is_v5 is true exactly when
\* find_split returns a non-empty list
C21_IsV5IffFindSplit ==
    /\ op = "is_v5" => (ok <=> find_split(word) # <<>>)
    /\ op = "find_split" => ((parts # <<>>) <=> is_v5(word))

\* is_v5 accepted a token for which find_split returns three blocks
C21_Witness ==
    op = "is_v5" /\ ok /\ Len(find_split(word)) = 3

\* option is a prefix of text
Prefix(option, text) ==
    Len(option) <= Len(text) /\ SubSeq(text, 1, Len(option)) = option

\* C22: a non-empty leftover means the parser is stuck: no option of a slot after
\* the last matched slot (of any slot when nothing matched) is a prefix of the
\* leftover
C22_LeftoverMeansStuck ==
    (op = "parse_greedy" /\ remaining # <<>>) =>
        LET last == IF matched = <<>> THEN -1 ELSE matched[Len(matched)][1]
        IN  \A s \in (last + 1)..(Len(slots) - 1) :
                \A n \in DOMAIN slots[s + 1] : ~Prefix(slots[s + 1][n], remaining)

\* a parse that stopped before the last slot with a leftover that begins with an
\* option of a slot it has passed
C22_Witness ==
    /\ op = "parse_greedy"
    /\ remaining # <<>>
    /\ matched # <<>>
    /\ matched[Len(matched)][1] + 1 < Len(slots)
    /\ \E s \in 0..matched[Len(matched)][1] :
          \E n \in DOMAIN slots[s + 1] : Prefix(slots[s + 1][n], remaining)

\* text is the token w without some of its first characters (or all of w)
Suffix(text, w) == \E k \in 0..Len(w) : text = slice(w, k, Len(w))

\* the leftovers the residue of w is chosen from: that of the single pass and
\* that of the suffix at every split point whose prefix is a full match
Leftovers(w, g) ==
    {parse_greedy(w, g).remaining} \cup
    {parse_greedy(slice(w, n, Len(w)), g).remaining :
        n \in {x \in 1..(Len(w) - 1) : FullParse(slice(w, 0, x), g)}}

\* the number of keys counted by a Counter
RECURSIVE Total(_)
Total(c) == IF c = <<>> THEN 0 ELSE c[1][2] + Total(Tail(c))

\* C23: a non-empty token that is no full match has a non-empty single-pass
\* leftover; the residue the v3 and v4 reports compute for a token that failed
\* the two-block search is non-empty, a suffix of the token and a shortest of
\* its leftovers, so every unmatched token is counted under its leading character
C23_ResidueIsNonEmptySuffix ==
    /\ (version = "v1" /\ op = "main" /\ word # <<>> /\ ~ok) =>
          (remaining # <<>> /\ Suffix(remaining, word))
    /\ (op = "main: residues") =>
          /\ Len(report.best_rem) = Len(unmatched_words)
          /\ Total(report.rem_head) = Len(unmatched_words)
          /\ \A k \in DOMAIN unmatched_words :
                LET w == unmatched_words[k]
                    best_rem == report.best_rem[k]
                IN  /\ best_rem # <<>>
                    /\ Suffix(best_rem, w)
                    /\ best_rem \in Leftovers(w, slots) \cup {w}
                    /\ \A r \in Leftovers(w, slots) : Len(best_rem) <= Len(r)
                    /\ \E e \in DOMAIN report.rem_head : report.rem_head[e][1] = best_rem[1]

\* a residue found after a split that is shorter than the single-pass leftover
C23_Witness ==
    /\ op = "main: residues"
    /\ \E k \in DOMAIN unmatched_words :
          Len(report.best_rem[k]) < Len(parse_greedy(unmatched_words[k], slots).remaining)

====
